---------------------------- MODULE Spec2Model ----------------------------
(***************************************************************************)
(* worker_script.py: a replica lists the ".txt" entries of the input       *)
(* directory, keeps those whose md5(filename) mod REPLICA_COUNT equals its *)
(* REPLICA_ID, counts words and letters of each kept file and writes the   *)
(* counts to results_<REPLICA_ID>.json.                                    *)
(*                                                                         *)
(* Text is a sequence of one-character strings.  A Python value is a       *)
(* record [kind, int, str] with kind in "undef" (name not bound), "None",  *)
(* "str", "int".                                                           *)
(***************************************************************************)
EXTENDS Integers, Sequences, FiniteSets, TLC

(***************************************************************************)
(* Bounds of the model.                                                    *)
(***************************************************************************)
\* longest text enumerated exhaustively as the content of a file
MaxLen == 3
\* largest REPLICA_COUNT of a full deployment (replicas 0..N-1)
MaxReplicas == 3

(***************************************************************************)
(* The state: one input directory, one output directory, the processes     *)
(* that load the module.                                                   *)
(***************************************************************************)
Procs == 1..MaxReplicas

VARIABLES
    dir,            \* input directory: name -> [readable, text]
    environ,        \* per process: REPLICA_ID and REPLICA_COUNT of os.environ
    mode,           \* per process: "main" (run as a script), "import", "off"
    pc,             \* per process: where it is
    REPLICA_ID,     \* per process: the module's global
    REPLICA_COUNT,  \* per process: the module's global
    assigned,       \* per process: assigned_files
    results,        \* per process: the results dict, in insertion order
    error,          \* per process: the exception that ended it
    opened,         \* per process: the input files count_words_and_letters opened
    hashed,         \* per process: the (name, count, index) the filter computed
    out,            \* output directory: name -> pieces of text
    trace           \* output directory: name -> the opens and writes, in order

vars == <<dir, environ, mode, pc, REPLICA_ID, REPLICA_COUNT, assigned, results,
          error, opened, hashed, out, trace>>

(***************************************************************************)
(* Characters.                                                             *)
(***************************************************************************)
\* str.isalpha() (line 15) on the characters the model uses
AlphaChars == {"a", "H", "e", "l", "o", "w", "r", "d"}
\* the characters str.split() (line 14) treats as separators
SpaceChars == {" ", "\n", "\t"}
DigitChars == {"0", "1", "2", "3", "4", "5", "6", "7", "8", "9"}

isalpha(c) == c \in AlphaChars
isspace(c) == c \in SpaceChars

DigitVal(c) ==
    CASE c = "0" -> 0 [] c = "1" -> 1 [] c = "2" -> 2 [] c = "3" -> 3
      [] c = "4" -> 4 [] c = "5" -> 5 [] c = "6" -> 6 [] c = "7" -> 7
      [] c = "8" -> 8 [] c = "9" -> 9

DigitChar(d) ==
    CASE d = 0 -> "0" [] d = 1 -> "1" [] d = 2 -> "2" [] d = 3 -> "3"
      [] d = 4 -> "4" [] d = 5 -> "5" [] d = 6 -> "6" [] d = 7 -> "7"
      [] d = 8 -> "8" [] d = 9 -> "9"

(***************************************************************************)
(* Python values.                                                          *)
(***************************************************************************)
Undef == [kind |-> "undef", int |-> 0, str |-> <<>>]
None == [kind |-> "None", int |-> 0, str |-> <<>>]
PyInt(n) == [kind |-> "int", int |-> n, str |-> <<>>]
PyStr(s) == [kind |-> "str", int |-> 0, str |-> s]

\* str(n) of an integer
RECURSIVE NatStr(_)
NatStr(n) == IF n < 10 THEN <<DigitChar(n)>>
             ELSE Append(NatStr(n \div 10), DigitChar(n % 10))

IntStr(n) == IF n < 0 THEN <<"-">> \o NatStr(-n) ELSE NatStr(n)

\* what an f-string puts for {value}
Format(v) ==
    CASE v.kind = "int" -> IntStr(v.int)
      [] v.kind = "str" -> v.str
      [] v.kind = "None" -> <<"N", "o", "n", "e">>

\* str.strip() of whitespace, as int() does before parsing
RECURSIVE LStrip(_)
LStrip(s) == IF s # <<>> /\ isspace(Head(s)) THEN LStrip(Tail(s)) ELSE s

RECURSIVE RStrip(_)
RStrip(s) == IF s # <<>> /\ isspace(s[Len(s)])
             THEN RStrip(SubSeq(s, 1, Len(s) - 1)) ELSE s

\* digits with single underscores between them
DigitBody(s) ==
    /\ s # <<>>
    /\ \A i \in 1..Len(s) : s[i] \in DigitChars \/ s[i] = "_"
    /\ s[1] # "_" /\ s[Len(s)] # "_"
    /\ \A i \in 1..(Len(s) - 1) : ~(s[i] = "_" /\ s[i + 1] = "_")

RECURSIVE DigitsVal(_, _)
DigitsVal(s, acc) ==
    IF s = <<>> THEN acc
    ELSE IF Head(s) = "_" THEN DigitsVal(Tail(s), acc)
    ELSE DigitsVal(Tail(s), acc * 10 + DigitVal(Head(s)))

\* int(s) of a string: [ok, val]; ok = FALSE is ValueError
ParseInt(s) ==
    LET t == RStrip(LStrip(s))
        signed == t # <<>> /\ Head(t) \in {"+", "-"}
        body == IF signed THEN Tail(t) ELSE t
    IN  IF DigitBody(body)
        THEN [ok |-> TRUE,
              val |-> IF signed /\ Head(t) = "-" THEN -DigitsVal(body, 0)
                      ELSE DigitsVal(body, 0)]
        ELSE [ok |-> FALSE, val |-> 0]

\* int(v): v an int (the default) or a str (the environment's value)
int(v) == IF v.kind = "int" THEN [ok |-> TRUE, val |-> v.int]
          ELSE ParseInt(v.str)

(***************************************************************************)
(* count_words_and_letters.                                                *)
(***************************************************************************)
\* text.split(): skip separators, take a maximal run of other characters
RECURSIVE TakeWord(_)
TakeWord(s) == IF s = <<>> \/ isspace(Head(s)) THEN <<>>
               ELSE <<Head(s)>> \o TakeWord(Tail(s))

RECURSIVE split(_)
split(s) ==
    LET t == LStrip(s)
    IN  IF t = <<>> THEN <<>>
        ELSE LET w == TakeWord(t)
             IN  <<w>> \o split(SubSeq(t, Len(w) + 1, Len(t)))

\* sum(1 for char in text if char.isalpha())
RECURSIVE SumAlpha(_)
SumAlpha(s) == IF s = <<>> THEN 0
               ELSE (IF isalpha(Head(s)) THEN 1 ELSE 0) + SumAlpha(Tail(s))

\* faulty variants of count_words_and_letters: split(" ") and isalnum()
RECURSIVE SplitOnSpace(_)
SplitOnSpace(s) ==
    IF \A i \in 1..Len(s) : s[i] # " " THEN <<s>>
    ELSE LET k == CHOOSE i \in 1..Len(s) :
                    s[i] = " " /\ \A j \in 1..(i - 1) : s[j] # " "
         IN  <<SubSeq(s, 1, k - 1)>> \o SplitOnSpace(SubSeq(s, k + 1, Len(s)))

RECURSIVE SumAlnum(_)
SumAlnum(s) ==
    IF s = <<>> THEN 0
    ELSE (IF isalpha(Head(s)) \/ Head(s) \in DigitChars THEN 1 ELSE 0)
         + SumAlnum(Tail(s))

count_split_single_space(text) ==
    [words |-> Len(SplitOnSpace(text)), letters |-> SumAlpha(text)]

count_isalnum(text) ==
    [words |-> Len(split(text)), letters |-> SumAlnum(text)]

\* the (word_count, letter_count) of a text that was read and decoded
count_words_and_letters(text) ==
    [words |-> Len(split(text)), letters |-> SumAlpha(text)]

(***************************************************************************)
(* File names, the md5 digests of the names, the shard of a name.          *)
(***************************************************************************)
A_TXT == <<"a", ".", "t", "x", "t">>
B_TXT == <<"b", ".", "t", "x", "t">>
H_TXT == <<"h", ".", "t", "x", "t">>
X_BAK == <<"x", ".", "t", "x", "t", ".", "b", "a", "k">>

\* the names an input directory of the model may hold
Names == {A_TXT, B_TXT, H_TXT, X_BAK}

\* hashlib.md5(f.encode()).hexdigest(), one number per hexadecimal digit
hexdigest(f) ==
    CASE f = A_TXT -> <<10, 5, 14, 5, 4, 13, 1, 15, 13, 7, 11, 11, 6, 9, 10, 2,
                        2, 8, 14, 15, 0, 13, 12, 13, 2, 4, 3, 1, 3, 6, 7, 14>>
      [] f = B_TXT -> <<12, 14, 5, 0, 6, 10, 12, 14, 2, 2, 15, 2, 8, 10, 12, 2,
                        11, 12, 4, 15, 9, 3, 3, 13, 4, 12, 15, 9, 8, 9, 15, 13>>
      [] f = H_TXT -> <<15, 5, 4, 12, 15, 13, 14, 3, 11, 1, 9, 2, 14, 1, 15, 5,
                        12, 15, 8, 13, 0, 8, 7, 4, 5, 11, 7, 1, 5, 1, 3, 7>>
      [] f = X_BAK -> <<12, 13, 14, 4, 6, 11, 1, 6, 8, 7, 3, 4, 9, 13, 5, 13,
                        1, 2, 0, 1, 5, 3, 7, 12, 4, 8, 1, 1, 10, 1, 2, 6>>

\* int(digits, 16) % m for m > 0, digit by digit (the integer has 128 bits)
RECURSIVE HexMod(_, _, _)
HexMod(digits, m, acc) ==
    IF digits = <<>> THEN acc
    ELSE HexMod(Tail(digits), m, (acc * 16 + Head(digits)) % m)

\* a faulty variant of endswith_txt: ".txt" anywhere in the name
contains_txt(f) ==
    \E i \in 1..Len(f) :
        i + 3 <= Len(f) /\ SubSeq(f, i, i + 3) = <<".", "t", "x", "t">>

\* f.endswith(".txt")
endswith_txt(f) ==
    Len(f) >= 4 /\ SubSeq(f, Len(f) - 3, Len(f)) = <<".", "t", "x", "t">>

\* faulty variants of shard: the file's content hashed instead of its name; the
\* digest reduced modulo REPLICA_COUNT + 1
shard_by_content(f, count) ==
    (HexMod(hexdigest(f), count, 0) + Len(dir[f].text)) % count

shard_off_by_one(f, count) ==
    HexMod(hexdigest(f), (IF count > 0 THEN count ELSE -count) + 1, 0)

\* int(hashlib.md5(f.encode()).hexdigest(), 16) % count, count # 0; Python's %
\* takes the sign of the divisor
shard(f, count) ==
    IF count > 0 THEN HexMod(hexdigest(f), count, 0)
    ELSE LET r == HexMod(hexdigest(f), -count, 0)
         IN  IF r = 0 THEN 0 ELSE r + count

(***************************************************************************)
(* json.dump(results, f, indent=4): the text written, as the sequence of   *)
(* its pieces: "{}" for an empty mapping, else "{", one piece per entry in *)
(* insertion order, "}".                                                   *)
(***************************************************************************)
Piece(tok) == [tok |-> tok, name |-> <<>>, words |-> 0, letters |-> 0]
EntryPiece(e) ==
    [tok |-> "entry", name |-> e.name, words |-> e.words, letters |-> e.letters]

dump(obj) ==
    IF obj = <<>> THEN <<Piece("{}")>>
    ELSE <<Piece("{")>> \o [i \in 1..Len(obj) |-> EntryPiece(obj[i])]
         \o <<Piece("}")>>

\* a write of data at offset 0 of a file holding old: open(.., 'w') truncates
\* when it opens, a later write does not
WriteAtStart(old, data) == data \o SubSeq(old, Len(data) + 1, Len(old))

\* a faulty variant of output_file: one name for every replica
output_file_shared(id) == <<"results", ".json">>

\* f"results_{REPLICA_ID}.json" (the output directory is fixed)
output_file(id) == <<"results_">> \o Format(id) \o <<".json">>

\* os.getenv(name): the value as a str, None when the variable is not set
getenv(p, name) == environ[p][name]

\* a faulty variant of getenv_default: the two defaults exchanged
getenv_defaults_swapped(p, name, default) ==
    IF environ[p][name] # None THEN environ[p][name]
    ELSE IF name = "REPLICA_COUNT" THEN PyInt(0) ELSE PyInt(1)

\* os.getenv(name, default)
getenv_default(p, name, default) ==
    IF environ[p][name] = None THEN default ELSE environ[p][name]

\* the sequences that list the set S once each, in any order: os.listdir
RECURSIVE Orders(_)
Orders(S) ==
    IF S = {} THEN {<<>>}
    ELSE UNION {{<<x>> \o t : t \in Orders(S \ {x})} : x \in S}

\* line 19: [f for f in os.listdir(input_dir) if f.endswith(".txt")]
RECURSIVE txt_files(_)
txt_files(listing) ==
    IF listing = <<>> THEN <<>>
    ELSE (IF endswith_txt(Head(listing)) THEN <<Head(listing)>> ELSE <<>>)
         \o txt_files(Tail(listing))

\* a faulty variant of is_assigned: REPLICA_ID taken modulo REPLICA_COUNT
is_assigned_wrapped(p, f) ==
    /\ REPLICA_ID[p].kind = "int"
    /\ shard(f, REPLICA_COUNT[p].int) =
         (IF REPLICA_COUNT[p].int > 0
          THEN REPLICA_ID[p].int % REPLICA_COUNT[p].int ELSE REPLICA_ID[p].int)

\* line 22, the condition for one name: is it this replica's; a REPLICA_ID
\* that is a str or None equals no integer
is_assigned(p, f) ==
    /\ REPLICA_ID[p].kind = "int"
    /\ shard(f, REPLICA_COUNT[p].int) = REPLICA_ID[p].int

\* line 22: [f for f in files if ... % REPLICA_COUNT == REPLICA_ID]
RECURSIVE assigned_files(_, _)
assigned_files(p, files) ==
    IF files = <<>> THEN <<>>
    ELSE (IF is_assigned(p, Head(files)) THEN <<Head(files)>> ELSE <<>>)
         \o assigned_files(p, Tail(files))

Range(s) == {s[i] : i \in 1..Len(s)}

(***************************************************************************)
(* The steps of a process.                                                 *)
(***************************************************************************)
\* a faulty variant of ImportModule: REPLICA_COUNT bound at the module's top level
ImportModule_binds_count(p) ==
    /\ pc[p] = "load"
    /\ mode[p] = "import"
    /\ REPLICA_ID' = [REPLICA_ID EXCEPT ![p] = getenv(p, "REPLICA_ID")]
    /\ REPLICA_COUNT' = [REPLICA_COUNT EXCEPT ![p] = PyInt(1)]
    /\ pc' = [pc EXCEPT ![p] = "call"]
    /\ UNCHANGED <<dir, environ, mode, assigned, results, error, opened, hashed,
                   out, trace>>

\* lines 2-9 of an import: REPLICA_ID is the environment's str or None and
\* REPLICA_COUNT is not bound; the importer then calls process_files
ImportModule(p) ==
    /\ pc[p] = "load"
    /\ mode[p] = "import"
    /\ REPLICA_ID' = [REPLICA_ID EXCEPT ![p] = getenv(p, "REPLICA_ID")]
    /\ pc' = [pc EXCEPT ![p] = "call"]
    /\ UNCHANGED <<dir, environ, mode, REPLICA_COUNT, assigned, results, error,
                   opened, hashed, out, trace>>

\* lines 2-9 and 36-38 of a run as a script: line 37 binds REPLICA_COUNT and
\* line 38 rebinds REPLICA_ID to integers, or int() raises ValueError
RunMain(p) ==
    /\ pc[p] = "load"
    /\ mode[p] = "main"
    /\ LET c == int(getenv_default(p, "REPLICA_COUNT", PyInt(1)))
           i == int(getenv_default(p, "REPLICA_ID", PyInt(0)))
       IN  /\ REPLICA_COUNT' = [REPLICA_COUNT EXCEPT
                                  ![p] = IF c.ok THEN PyInt(c.val) ELSE @]
           /\ REPLICA_ID' = [REPLICA_ID EXCEPT
                               ![p] = IF c.ok /\ i.ok THEN PyInt(i.val)
                                      ELSE getenv(p, "REPLICA_ID")]
           /\ pc' = [pc EXCEPT ![p] = IF c.ok /\ i.ok THEN "call" ELSE "failed"]
           /\ error' = [error EXCEPT
                          ![p] = IF c.ok /\ i.ok THEN @ ELSE "ValueError"]
    /\ UNCHANGED <<dir, environ, mode, assigned, results, opened, hashed, out,
                   trace>>

\* lines 19-24: list, keep the .txt names, keep this replica's; the filter
\* evaluates REPLICA_COUNT once per name of files, so only when there is one
Scan(p) ==
    /\ pc[p] = "call"
    /\ \E files \in {txt_files(listing) : listing \in Orders(DOMAIN dir)} :
             IF files = <<>>
             THEN /\ assigned' = [assigned EXCEPT ![p] = <<>>]
                  /\ pc' = [pc EXCEPT ![p] = "loop"]
                  /\ UNCHANGED <<error, hashed>>
             ELSE IF REPLICA_COUNT[p].kind = "undef"
             THEN /\ pc' = [pc EXCEPT ![p] = "failed"]
                  /\ error' = [error EXCEPT ![p] = "NameError"]
                  /\ UNCHANGED <<assigned, hashed>>
             ELSE IF REPLICA_COUNT[p].int = 0
             THEN /\ pc' = [pc EXCEPT ![p] = "failed"]
                  /\ error' = [error EXCEPT ![p] = "ZeroDivisionError"]
                  /\ UNCHANGED <<assigned, hashed>>
             ELSE /\ assigned' = [assigned EXCEPT
                                    ![p] = assigned_files(p, files)]
                  /\ hashed' = [hashed EXCEPT
                                  ![p] = {[name |-> f,
                                           count |-> REPLICA_COUNT[p].int,
                                           index |-> shard(f, REPLICA_COUNT[p].int)]
                                          : f \in Range(files)}]
                  /\ pc' = [pc EXCEPT ![p] = "loop"]
                  /\ UNCHANGED error
    /\ UNCHANGED <<dir, environ, mode, REPLICA_ID, REPLICA_COUNT, results, opened,
                   out, trace>>

\* a faulty variant of ReadFile: on a failure the results so far are written out
ReadFile_flushes_on_error(p) ==
    /\ pc[p] = "loop"
    /\ Len(results[p]) < Len(assigned[p])
    /\ LET filename == assigned[p][Len(results[p]) + 1]
           file == dir[filename]
           counts == count_words_and_letters(file.text)
           name == output_file(REPLICA_ID[p])
       IN  /\ opened' = [opened EXCEPT ![p] = @ \cup {filename}]
           /\ IF file.readable
              THEN /\ results' = [results EXCEPT
                                    ![p] = Append(@, [name |-> filename,
                                                      words |-> counts.words,
                                                      letters |-> counts.letters])]
                   /\ UNCHANGED <<pc, error, out, trace>>
              ELSE /\ pc' = [pc EXCEPT ![p] = "failed"]
                   /\ error' = [error EXCEPT ![p] = "ReadError"]
                   /\ out' = [n \in DOMAIN out \cup {name} |->
                                IF n = name THEN dump(results[p]) ELSE out[n]]
                   /\ trace' = [n \in DOMAIN out \cup {name} |->
                                  IF n = name
                                  THEN (IF n \in DOMAIN trace THEN trace[n] ELSE <<>>)
                                       \o <<[proc |-> p, op |-> "open"],
                                            [proc |-> p, op |-> "write"]>>
                                  ELSE trace[n]]
                   /\ UNCHANGED results
    /\ UNCHANGED <<dir, environ, mode, REPLICA_ID, REPLICA_COUNT, assigned, hashed>>

\* lines 25-28, one iteration: the next assigned file is opened, read, decoded
\* and counted; a failure to open or decode propagates out of process_files
ReadFile(p) ==
    /\ pc[p] = "loop"
    /\ Len(results[p]) < Len(assigned[p])
    /\ LET filename == assigned[p][Len(results[p]) + 1]
           file == dir[filename]
           counts == count_words_and_letters(file.text)
       IN  /\ opened' = [opened EXCEPT ![p] = @ \cup {filename}]
           /\ IF file.readable
              THEN /\ results' = [results EXCEPT
                                    ![p] = Append(@, [name |-> filename,
                                                      words |-> counts.words,
                                                      letters |-> counts.letters])]
                   /\ UNCHANGED <<pc, error>>
              ELSE /\ pc' = [pc EXCEPT ![p] = "failed"]
                   /\ error' = [error EXCEPT ![p] = "ReadError"]
                   /\ UNCHANGED results
    /\ UNCHANGED <<dir, environ, mode, REPLICA_ID, REPLICA_COUNT, assigned, hashed,
                   out, trace>>

\* lines 30-31: open(output_file, 'w') creates the file or truncates it
OpenOutput(p) ==
    /\ pc[p] = "loop"
    /\ Len(results[p]) = Len(assigned[p])
    /\ LET name == output_file(REPLICA_ID[p])
       IN  /\ out' = [n \in DOMAIN out \cup {name} |->
                        IF n = name THEN <<>> ELSE out[n]]
           /\ trace' = [n \in DOMAIN out \cup {name} |->
                          IF n = name
                          THEN (IF n \in DOMAIN trace THEN trace[n] ELSE <<>>)
                               \o <<[proc |-> p, op |-> "open"]>>
                          ELSE trace[n]]
    /\ pc' = [pc EXCEPT ![p] = "dump"]
    /\ UNCHANGED <<dir, environ, mode, REPLICA_ID, REPLICA_COUNT, assigned, results,
                   error, opened, hashed>>

\* lines 32-34: json.dump fills the file object's buffer (the text of a few
\* entries is far below its size), leaving the with block flushes it in one
\* write at the start of the file and closes it
DumpAndClose(p) ==
    /\ pc[p] = "dump"
    /\ LET name == output_file(REPLICA_ID[p])
       IN  /\ out' = [out EXCEPT ![name] = WriteAtStart(@, dump(results[p]))]
           /\ trace' = [trace EXCEPT
                          ![name] = Append(@, [proc |-> p, op |-> "write"])]
    /\ pc' = [pc EXCEPT ![p] = "done"]
    /\ UNCHANGED <<dir, environ, mode, REPLICA_ID, REPLICA_COUNT, assigned, results,
                   error, opened, hashed>>

Step(p) ==
    \/ ImportModule(p)
    \/ RunMain(p)
    \/ Scan(p)
    \/ ReadFile(p)
    \/ OpenOutput(p)
    \/ DumpAndClose(p)

Next == \E p \in Procs : Step(p)

(***************************************************************************)
(* The initial states: what the directory holds, which processes there     *)
(* are and what their environment sets.                                    *)
(***************************************************************************)
File(text) == [readable |-> TRUE, text |-> text]
\* an entry whose open() or utf-8 decoding fails
Unreadable == [readable |-> FALSE, text |-> <<>>]

HelloText == <<"H", "e", "l", "l", "o", " ", "w", "o", "r", "l", "d", " ",
               "1", "2", "3">>

TextChars == {"a", "1", " ", "\n", "."}
Texts == UNION {[1..n -> TextChars] : n \in 0..MaxLen} \cup {HelloText}

Str(s) == PyStr(s)
Env(id, count) == [REPLICA_ID |-> id, REPLICA_COUNT |-> count]

\* values of REPLICA_ID and REPLICA_COUNT in the environment; None: not set
IdValues == {None, Str(<<"0">>), Str(<<"1">>), Str(<<"0", "1">>),
             Str(<<"-", "1">>), Str(<<"x">>)}
CountValues == {None, Str(<<"0">>), Str(<<"2">>), Str(<<"-", "2">>),
                Str(<<"x">>)}

\* directories: every .txt entry readable / any entry possibly unreadable
ReadableDirs ==
    UNION {[S -> {File(HelloText)}] : S \in SUBSET {A_TXT, B_TXT, X_BAK}}
AnyDirs ==
    UNION {[S -> {File(HelloText), Unreadable}] : S \in SUBSET Names}

Fresh(d, e, m) ==
    /\ dir = d
    /\ environ = e
    /\ mode = m
    /\ pc = [p \in Procs |-> IF m[p] = "off" THEN "off" ELSE "load"]
    /\ REPLICA_ID = [p \in Procs |-> Undef]
    /\ REPLICA_COUNT = [p \in Procs |-> Undef]
    /\ assigned = [p \in Procs |-> <<>>]
    /\ results = [p \in Procs |-> <<>>]
    /\ error = [p \in Procs |-> "none"]
    /\ opened = [p \in Procs |-> {}]
    /\ hashed = [p \in Procs |-> {}]
    /\ out = <<>>
    /\ trace = <<>>

\* a full deployment: N replicas run the script, REPLICA_COUNT = N and
\* REPLICA_ID = 0..N-1 once each
InitDeployed ==
    \E N \in 1..MaxReplicas, d \in AnyDirs :
        Fresh(d,
              [p \in Procs |-> IF p <= N THEN Env(Str(IntStr(p - 1)), Str(IntStr(N)))
                               ELSE Env(None, None)],
              [p \in Procs |-> IF p <= N THEN "main" ELSE "off"])

\* one process with any environment, run as a script or imported, alone or
\* beside a replica run with REPLICA_ID=1 and REPLICA_COUNT 1 or 2
InitPair ==
    \E id \in IdValues, count \in CountValues, m \in {"main", "import"},
       count2 \in {Str(<<"1">>), Str(<<"2">>)},
       m2 \in {"main", "off"}, d \in ReadableDirs :
        /\ m = "import" => count = None
        /\ m2 = "off" => count2 = Str(<<"1">>)
        /\ Fresh(d,
                 [p \in Procs |-> IF p = 1 THEN Env(id, count)
                                  ELSE IF p = 2 /\ m2 = "main"
                                  THEN Env(Str(<<"1">>), count2)
                                  ELSE Env(None, None)],
                 [p \in Procs |-> IF p = 1 THEN m ELSE IF p = 2 THEN m2 ELSE "off"])

\* one replica with nothing set in the environment, one file of any text
\* or unreadable
InitText ==
    \E c \in {File(t) : t \in Texts} \cup {Unreadable} :
        Fresh([f \in {A_TXT} |-> c],
              [p \in Procs |-> Env(None, None)],
              [p \in Procs |-> IF p = 1 THEN "main" ELSE "off"])

Init == InitDeployed \/ InitPair \/ InitText

Spec == Init /\ [][Next]_vars

(***************************************************************************)
(* What the claims speak of.                                               *)
(***************************************************************************)
\* the .txt entries of the input directory
TxtEntries == DOMAIN dir \cap {A_TXT, B_TXT, H_TXT}

\* int(md5(name), 16) % count as CPython computes it
Md5ModTable(f, count) ==
    CASE f = A_TXT /\ count \in 1..5 -> <<0, 0, 1, 2, 3>>[count]
      [] f = B_TXT /\ count \in 1..5 -> <<0, 1, 2, 1, 1>>[count]
      [] f = H_TXT /\ count \in 1..5 -> <<0, 1, 0, 3, 1>>[count]
      [] f = X_BAK /\ count \in 1..5 -> <<0, 0, 1, 2, 3>>[count]
      [] f \in {A_TXT, X_BAK} /\ count = -2 -> 0
      [] f \in {B_TXT, H_TXT} /\ count = -2 -> -1
      [] OTHER -> 99

\* the number of maximal runs of non-whitespace characters of a text
TokenCount(text) ==
    Cardinality({i \in 1..Len(text) :
                    /\ text[i] \notin SpaceChars
                    /\ (i = 1 \/ text[i - 1] \in SpaceChars)})

\* the number of alphabetic characters of a text
AlphabeticCount(text) == Cardinality({i \in 1..Len(text) : text[i] \in AlphaChars})

Active == {p \in Procs : mode[p] # "off"}

\* the entries a process has put into its results
Entries(p) == Range(results[p])

\* a text file read back as JSON: an object or not, and the object's entries
IsJsonObject(pieces) ==
    \/ pieces = <<Piece("{}")>>
    \/ /\ Len(pieces) >= 2
       /\ pieces[1] = Piece("{")
       /\ pieces[Len(pieces)] = Piece("}")
       /\ \A i \in 2..(Len(pieces) - 1) : pieces[i].tok = "entry"

Mapping(pieces) ==
    {[name |-> pieces[i].name, words |-> pieces[i].words,
      letters |-> pieces[i].letters] :
        i \in {j \in 1..Len(pieces) : pieces[j].tok = "entry"}}

Keys(pieces) == {e.name : e \in Mapping(pieces)}

\* the output file of a process whose REPLICA_ID is bound
OutName(p) == output_file(REPLICA_ID[p])

\* the processes that have opened the output file named n
Users(n) == IF n \in DOMAIN trace THEN {e.proc : e \in Range(trace[n])} ELSE {}

\* no other process has opened the output file of p
Alone(p) == Users(OutName(p)) \subseteq {p}

\* the output files p has opened
Touched(p) == {n \in DOMAIN trace : p \in Users(n)}

(***************************************************************************)
(* C5: the word count of every file a replica has counted is the number of *)
(* whitespace-separated tokens (maximal non-whitespace runs) of its text:  *)
(* 0 for an empty or all-whitespace text, 3 for "Hello world 123".         *)
(***************************************************************************)
C5_WordCount ==
    \A p \in Procs : \A e \in Entries(p) :
        LET text == dir[e.name].text
        IN  /\ e.words = TokenCount(text)
            /\ (\A i \in 1..Len(text) : text[i] \in SpaceChars) => e.words = 0
            /\ text = HelloText => e.words = 3

\* a file holding "Hello world 123" was counted as 3 words
C5_Witness ==
    \E p \in Procs : \E e \in Entries(p) :
        dir[e.name].text = HelloText /\ e.words = 3

(***************************************************************************)
(* C6: the letter count of every file a replica has counted is the number  *)
(* of alphabetic characters of its text: digits, whitespace and            *)
(* punctuation do not count, it is 0 for an empty text and 10 for          *)
(* "Hello world 123", never negative and never above the text's length.    *)
(***************************************************************************)
C6_LetterCount ==
    \A p \in Procs : \A e \in Entries(p) :
        LET text == dir[e.name].text
        IN  /\ e.letters = AlphabeticCount(text)
            /\ (\A i \in 1..Len(text) : text[i] \notin AlphaChars) => e.letters = 0
            /\ text = <<>> => e.letters = 0
            /\ text = HelloText => e.letters = 10
            /\ e.letters >= 0
            /\ e.letters <= Len(text)

\* a text with a letter, a digit and a separator was counted as one letter
C6_Witness ==
    \E p \in Procs : \E e \in Entries(p) :
        /\ dir[e.name].text = <<"a", "1", " ">>
        /\ e.letters = 1

(***************************************************************************)
(* C2: the replica index a name is assigned to depends only on the name    *)
(* and REPLICA_COUNT: every index any process computes, in any run, for    *)
(* any directory, file content and listing order, is the one fixed value   *)
(* int(md5(name), 16) % REPLICA_COUNT; two processes that evaluate the     *)
(* same name under the same REPLICA_COUNT get the same index, and a        *)
(* process keeps the name exactly when that index is its REPLICA_ID.       *)
(***************************************************************************)
C2_AssignmentDeterministic ==
    /\ \A p \in Procs : \A h \in hashed[p] :
         /\ h.index = Md5ModTable(h.name, h.count)
         /\ (h.name \in Range(assigned[p]))
              <=> (REPLICA_ID[p].kind = "int" /\ h.index = REPLICA_ID[p].int)
    /\ \A p, q \in Procs : \A h \in hashed[p], g \in hashed[q] :
         (h.name = g.name /\ h.count = g.count) => h.index = g.index

\* two replicas with different REPLICA_ID evaluated b.txt under
\* REPLICA_COUNT = 2 in a directory of several entries, one of them
\* unreadable, and one of the two kept it
C2_Witness ==
    \E p, q \in Procs :
        /\ REPLICA_ID[p] = PyInt(0) /\ REPLICA_ID[q] = PyInt(1)
        /\ [name |-> B_TXT, count |-> 2, index |-> 1] \in hashed[p] \cap hashed[q]
        /\ B_TXT \in Range(assigned[q]) /\ B_TXT \notin Range(assigned[p])
        /\ Cardinality(DOMAIN dir) >= 3
        /\ \E f \in DOMAIN dir : ~dir[f].readable

(***************************************************************************)
(* C4: when a replica has finished without an exception and no other       *)
(* process used its output file, the one file it wrote,                    *)
(* results_<REPLICA_ID>.json, is a JSON object whose keys are exactly the  *)
(* directory's names that end in ".txt" and whose md5 mod REPLICA_COUNT is *)
(* REPLICA_ID, each with that file's words and letters: no other name, no  *)
(* other replica's file, none of its own missing.                          *)
(***************************************************************************)
C4_OutputIsAssignedFiles ==
    \A p \in Procs :
        (pc[p] = "done" /\ Alone(p)) =>
            /\ Touched(p) = {OutName(p)}
            /\ OutName(p) \in DOMAIN out
            /\ LET text == out[OutName(p)]
               IN  /\ IsJsonObject(text)
                   /\ Keys(text) =
                        {f \in TxtEntries :
                            /\ REPLICA_ID[p].kind = "int"
                            /\ Md5ModTable(f, REPLICA_COUNT[p].int) = REPLICA_ID[p].int}
                   /\ Cardinality(Mapping(text)) = Cardinality(Keys(text))
                   /\ \A e \in Mapping(text) :
                        /\ e.words = TokenCount(dir[e.name].text)
                        /\ e.letters = AlphabeticCount(dir[e.name].text)

\* a replica finished and wrote some but not all of the .txt names, in a
\* directory that also holds a name without the suffix
C4_Witness ==
    \E p \in Procs :
        /\ pc[p] = "done" /\ Alone(p)
        /\ OutName(p) \in DOMAIN out
        /\ Keys(out[OutName(p)]) # {}
        /\ Keys(out[OutName(p)]) # TxtEntries
        /\ X_BAK \in DOMAIN dir

(***************************************************************************)
(* C1: N >= 1 replicas run with REPLICA_COUNT = N and REPLICA_ID 0..N-1    *)
(* once each.                                                              *)
(***************************************************************************)
FullDeployment ==
    /\ Active # {}
    /\ \A p \in Active :
         /\ mode[p] = "main"
         /\ REPLICA_COUNT[p] = PyInt(Cardinality(Active))
         /\ REPLICA_ID[p].kind = "int"
    /\ \A i \in 0..(Cardinality(Active) - 1) :
         Cardinality({p \in Active : REPLICA_ID[p] = PyInt(i)}) = 1

\* the names in the result file a replica has written; a replica that
\* raised has written none
Output(p) ==
    IF pc[p] = "done" /\ OutName(p) \in DOMAIN out
    THEN Keys(out[OutName(p)]) ELSE {}

\* every .txt name is in the output of exactly one replica and the outputs
\* hold nothing else
Covered ==
    /\ UNION {Output(p) : p \in Active} = TxtEntries
    /\ \A f \in TxtEntries : Cardinality({p \in Active : f \in Output(p)}) = 1

C3_FailureNoPartialOutput ==
    \A p \in Procs :
        /\ (\E f \in opened[p] : ~dir[f].readable) =>
               /\ pc[p] = "failed"
               /\ error[p] = "ReadError"
        /\ error[p] = "ReadError" =>
               /\ pc[p] = "failed"
               /\ \E f \in opened[p] : ~dir[f].readable
               /\ Touched(p) = {}
               /\ (Users(OutName(p)) = {} => OutName(p) \notin DOMAIN out)

\* a replica counted one file, failed on the next, and has written nothing
C3_Witness ==
    \E p \in Procs :
        /\ error[p] = "ReadError"
        /\ Len(results[p]) >= 1
        /\ OutName(p) \notin DOMAIN out

(***************************************************************************)
(* C7: a script run with neither REPLICA_ID nor REPLICA_COUNT set.         *)
(***************************************************************************)
DefaultRun(p) == mode[p] = "main" /\ environ[p] = Env(None, None)

Results0 == <<"results_", "0", ".json">>

C8_ReplicaCountUnbound ==
    \A p \in Procs :
        /\ mode[p] = "import" =>
             /\ REPLICA_COUNT[p] = Undef
             /\ (pc[p] \notin {"load", "call"} /\ TxtEntries # {}) =>
                  /\ pc[p] = "failed"
                  /\ error[p] = "NameError"
                  /\ Touched(p) = {}
        /\ (mode[p] = "main" /\ pc[p] # "load" /\ error[p] # "ValueError") =>
             /\ REPLICA_COUNT[p].kind = "int"
             /\ REPLICA_ID[p].kind = "int"

\* an importing process called process_files on a directory with a .txt
\* entry and got NameError, the output directory still empty
C8_Witness ==
    \E p \in Procs :
        /\ mode[p] = "import"
        /\ error[p] = "NameError"
        /\ TxtEntries # {}
        /\ DOMAIN out = {}

(***************************************************************************)
(* C9: replicas (script runs) and the output files they share.             *)
(***************************************************************************)
\* a script run whose globals are bound
Replica(p) == mode[p] = "main" /\ REPLICA_ID[p].kind = "int"

\* replicas with different REPLICA_ID have different output files, and a
\* replica opens and writes no file but its own
OwnFileOnly ==
    /\ \A p, q \in Procs :
         (Replica(p) /\ Replica(q) /\ REPLICA_ID[p] # REPLICA_ID[q]) =>
             OutName(p) # OutName(q)
    /\ \A p \in Procs : Replica(p) => Touched(p) \subseteq {OutName(p)}
    /\ \A n \in DOMAIN out : \A p, q \in Users(n) :
         (Replica(p) /\ Replica(q)) => REPLICA_ID[p] = REPLICA_ID[q]

\* two finished replicas with one REPLICA_ID, alone on their file
Twins(p, q) ==
    /\ p # q /\ Replica(p) /\ Replica(q)
    /\ REPLICA_ID[p] = REPLICA_ID[q]
    /\ pc[p] = "done" /\ pc[q] = "done"
    /\ Users(OutName(p)) = {p, q}

\* where in the file's history a process opened it and wrote it
Pos(n, p, op) ==
    CHOOSE i \in 1..Len(trace[n]) : trace[n][i] = [proc |-> p, op |-> op]

\* the process whose write of the file is the last
LastWriter(n) == trace[n][Len(trace[n])].proc

\* C9 as stated: distinct REPLICA_IDs never share a file; the file of two
\* replicas with one REPLICA_ID ends with the content of the last writer
C9_AsStated ==
    /\ OwnFileOnly
    /\ \A p, q \in Procs :
         Twins(p, q) =>
             /\ OutName(p) = OutName(q)
             /\ out[OutName(p)] = dump(results[LastWriter(OutName(p))])

\* C9 amended: distinct REPLICA_IDs never share a file; two replicas with
\* one REPLICA_ID write the same file, and it ends with the content of the
\* last writer when the other wrote before the last writer opened the file;
\* when the other wrote while the last writer had the file open, it ends
\* with the last writer's text followed by what of the other's text lies
\* beyond that length
C9_SharedOutputFile ==
    /\ OwnFileOnly
    /\ \A p, q \in Procs :
         (Twins(p, q) /\ LastWriter(OutName(p)) = p) =>
             LET n == OutName(p)
             IN  /\ OutName(q) = n
                 /\ n \in DOMAIN out
                 /\ out[n] = IF Pos(n, q, "write") < Pos(n, p, "open")
                             THEN dump(results[p])
                             ELSE WriteAtStart(dump(results[q]), dump(results[p]))

\* two replicas with one REPLICA_ID and different results finished one after
\* the other, and the file holds the text of the second
C9_Witness ==
    \E p, q \in Procs :
        /\ Twins(p, q) /\ LastWriter(OutName(p)) = p
        /\ Pos(OutName(p), q, "write") < Pos(OutName(p), p, "open")
        /\ results[p] # results[q]
        /\ out[OutName(p)] = dump(results[p])

(***************************************************************************)
(* C10: a replica whose REPLICA_ID is outside 0..REPLICA_COUNT-1, with     *)
(* REPLICA_COUNT >= 1, is assigned no file and opens none, does not fail   *)
(* and can always take its next step until it has finished, and the file   *)
(* results_<REPLICA_ID>.json it leaves (no other process using that file)  *)
(* holds the empty mapping.                                                *)
(***************************************************************************)
OutOfRange(p) ==
    /\ Replica(p)
    /\ REPLICA_COUNT[p].kind = "int"
    /\ REPLICA_COUNT[p].int >= 1
    /\ REPLICA_ID[p].int \notin 0..(REPLICA_COUNT[p].int - 1)

C10_OutOfRangeReplica ==
    \A p \in Procs :
        OutOfRange(p) =>
            /\ pc[p] \in {"call", "loop", "dump", "done"}
            /\ error[p] = "none"
            /\ assigned[p] = <<>>
            /\ results[p] = <<>>
            /\ opened[p] = {}
            /\ pc[p] # "done" => ENABLED Step(p)
            /\ (pc[p] = "done" /\ Alone(p)) =>
                 /\ OutName(p) \in DOMAIN out
                 /\ out[OutName(p)] = <<Piece("{}")>>
                 /\ IsJsonObject(out[OutName(p)])
                 /\ Mapping(out[OutName(p)]) = {}

\* a replica with REPLICA_ID -1 finished over a directory with .txt files
\* and left an empty mapping
C10_Witness ==
    \E p \in Procs :
        /\ OutOfRange(p) /\ REPLICA_ID[p].int < 0
        /\ pc[p] = "done" /\ Alone(p)
        /\ TxtEntries # {}
        /\ out[OutName(p)] = <<Piece("{}")>>

=============================================================================
